---- MODULE Spec2Model ----
(***************************************************************************)
(* A model of the subleq interpreter of this repository.                   *)
(*                                                                         *)
(* The repository holds two engines:                                       *)
(*   - src/subleq/src/lib.rs : Subleq<T, M> whose program counter is a     *)
(*     usize and whose cells are converted to addresses with as_();        *)
(*     its reference memory is LinearMemory<T, SIZE>.  Called "crate"      *)
(*     below.                                                              *)
(*   - src/src/lib.rs : Subleq<T, M> whose program counter is a value of   *)
(*     T and whose memory is indexed by T; its documented memory is the    *)
(*     ByteMemory of the doc examples.  Called "root" below.               *)
(*                                                                         *)
(* T is modelled as a signed integer of ValueBits bits, usize as an        *)
(* unsigned integer of UsizeBits bits.                                     *)
(***************************************************************************)
EXTENDS Integers, Sequences, FiniteSets

VARIABLES variant, ro, mem, curr_instruction, nsets, nsteps, last

vars == <<variant, ro, mem, curr_instruction, nsets, nsteps, last>>

(***************************************************************************)
(* Bounds of the model.                                                    *)
(***************************************************************************)
\* width of the value type T (i8 in the doc examples), scaled down
ValueBits == 5
\* width of usize, scaled down; wider than T as on every supported target
UsizeBits == 8
\* the const generic SIZE of LinearMemory<T, SIZE>
SIZE == 5
\* number of successful set calls the caller makes on top of the loaded program
MaxSets == 1
\* number of steps that change the machine state (steps that change nothing,
\* a failing step or a self-branch, are not counted)
MaxSteps == 2

RECURSIVE Pow2(_)
Pow2(n) == IF n = 0 THEN 1 ELSE 2 * Pow2(n - 1)

TMod == Pow2(ValueBits)
MinT == 0 - Pow2(ValueBits - 1)
MaxT == Pow2(ValueBits - 1) - 1
UsizeMod == Pow2(UsizeBits)
UsizeMax == UsizeMod - 1

(***************************************************************************)
(* Arithmetic of T and usize.                                              *)
(***************************************************************************)
\* two's complement reduction of an integer into T
WrapT(x) == ((x - MinT) % TMod) + MinT

InT(x) == MinT <= x /\ x <= MaxT

\* mutant: the operands of the subtraction swapped
sub_swapped(x, y) == WrapT(y - x)

\* `b_value - a_value` on T in a build without overflow checks
sub(x, y) == WrapT(x - y)

\* T::wrapping_sub
wrapping_sub(x, y) == WrapT(x - y)

\* T::wrapping_add
wrapping_add_T(x, y) == WrapT(x + y)

\* usize::wrapping_add
wrapping_add(x, y) == (x + y) % UsizeMod

\* mutant: zero counts as positive
is_positive_or_zero(v) == v >= 0

\* Signed::is_positive
is_positive(v) == v > 0

\* AsPrimitive<usize>::as_ : the `as` cast of a signed T to usize
\* (sign extension, then reinterpretation as unsigned)
as_(v) == v % UsizeMod

(***************************************************************************)
(* Results.                                                                *)
(***************************************************************************)
Ok(v) == [tag |-> "Ok", val |-> v]
AddressOutOfRange(a) == [tag |-> "AddressOutOfRange", val |-> a]
ImmutableAddress(a) == [tag |-> "ImmutableAddress", val |-> a]
\* the arithmetic-overflow panic of a build with overflow checks
Panic == [tag |-> "Panic", val |-> 0]

IsOk(r) == r.tag = "Ok"

(***************************************************************************)
(* LinearMemory<T, SIZE>                                                   *)
(***************************************************************************)
LinearMemory_default == [i \in 0..(SIZE - 1) |-> 0]

\* mutant: the address wraps around the capacity instead of failing
LinearMemory_get_wrapped(m, address) == Ok(m[address % SIZE])

LinearMemory_get(m, address) ==
    IF address \in DOMAIN m THEN Ok(m[address]) ELSE AddressOutOfRange(address)

\* mutant: the write lands one cell further
LinearMemory_set_off_by_one(m, address, value) ==
    IF address \in DOMAIN m /\ address + 1 \in DOMAIN m
    THEN [res |-> Ok(0), mem |-> [m EXCEPT ![address + 1] = value]]
    ELSE [res |-> AddressOutOfRange(address), mem |-> m]

\* mutant: the cell is found but never assigned
LinearMemory_set_noop(m, address, value) ==
    IF address \in DOMAIN m
    THEN [res |-> Ok(0), mem |-> m]
    ELSE [res |-> AddressOutOfRange(address), mem |-> m]

LinearMemory_set(m, address, value) ==
    IF address \in DOMAIN m
    THEN [res |-> Ok(0), mem |-> [m EXCEPT ![address] = value]]
    ELSE [res |-> AddressOutOfRange(address), mem |-> m]

(***************************************************************************)
(* ByteMemory of the doc examples of the root crate: one cell for every    *)
(* value of T, indexed by the value reinterpreted as unsigned.             *)
(***************************************************************************)
ByteMemory_new == [i \in 0..(TMod - 1) |-> 0]

ByteMemory_index(index) == index % TMod

ByteMemory_get(m, index) == Ok(m[ByteMemory_index(index)])

ByteMemory_set(m, index, value) ==
    [res |-> Ok(0), mem |-> [m EXCEPT ![ByteMemory_index(index)] = value]]

(***************************************************************************)
(* The Memory trait as the engines see it.  r is the set of cells the      *)
(* implementation designates read-only (empty for LinearMemory and for     *)
(* ByteMemory themselves); a set on such a cell returns ImmutableAddress.  *)
(***************************************************************************)
Memory_get(m, index) == LinearMemory_get(m, index)

Memory_set(m, r, index, value) ==
    IF index \in DOMAIN m /\ index \in r
    THEN [res |-> ImmutableAddress(index), mem |-> m]
    ELSE LinearMemory_set(m, index, value)

RootMemory_get(m, index) == ByteMemory_get(m, index)

RootMemory_set(m, r, index, value) ==
    IF ByteMemory_index(index) \in r
    THEN [res |-> ImmutableAddress(ByteMemory_index(index)), mem |-> m]
    ELSE ByteMemory_set(m, index, value)

\* Memory::instruction of the root crate: three gets, the first failure wins
instruction(m, index) ==
    LET g0 == RootMemory_get(m, index)
        g1 == RootMemory_get(m, wrapping_add_T(index, 1))
        g2 == RootMemory_get(m, wrapping_add_T(index, 2))
    IN  IF ~IsOk(g0) THEN [res |-> g0, a |-> 0, b |-> 0, c |-> 0]
        ELSE IF ~IsOk(g1) THEN [res |-> g1, a |-> 0, b |-> 0, c |-> 0]
        ELSE IF ~IsOk(g2) THEN [res |-> g2, a |-> 0, b |-> 0, c |-> 0]
        ELSE [res |-> Ok(0), a |-> g0.val, b |-> g1.val, c |-> g2.val]

(***************************************************************************)
(* Subleq::step of src/subleq/src/lib.rs.  chk: the build has overflow     *)
(* checks (debug profile), so that `b_value - a_value` panics on overflow; *)
(* without them it wraps.                                                  *)
(***************************************************************************)
\* mutant: the program counter has already moved on when the error returns
Err_advanced(m, p, e) == [res |-> e, mem |-> m, pc |-> wrapping_add(p, 3)]

\* the early return of `?`: the error goes to the caller, the engine is
\* left as it is
Err(m, p, e) == [res |-> e, mem |-> m, pc |-> p]

\* mutants of step: with bug = "b_first" the value at B is read before the
\* value at A; with bug = "reread_c" the branch target is read from the
\* memory after the write instead of being kept from the fetch
Subleq_step_bug(m, r, p, chk, bug) ==
    LET g0 == Memory_get(m, p)
        g1 == Memory_get(m, wrapping_add(p, 1))
        g2 == Memory_get(m, wrapping_add(p, 2))
    IN  IF ~IsOk(g0) THEN Err(m, p, g0)
        ELSE IF ~IsOk(g1) THEN Err(m, p, g1)
        ELSE IF ~IsOk(g2) THEN Err(m, p, g2)
        ELSE
        LET a == as_(g0.val)
            b == as_(g1.val)
            ga == Memory_get(m, a)
            gb == Memory_get(m, b)
            first == IF bug = "b_first" THEN gb ELSE ga
            second == IF bug = "b_first" THEN ga ELSE gb
        IN  IF ~IsOk(first) THEN Err(m, p, first)
            ELSE IF ~IsOk(second) THEN Err(m, p, second)
            ELSE IF chk /\ ~InT(gb.val - ga.val) THEN Err(m, p, Panic)
            ELSE
            LET result == sub(gb.val, ga.val)
                s == Memory_set(m, r, b, result)
                c == IF bug = "reread_c"
                     THEN as_(s.mem[wrapping_add(p, 2)])
                     ELSE as_(g2.val)
            IN  IF ~IsOk(s.res) THEN Err(s.mem, p, s.res)
                ELSE [res |-> Ok(0), mem |-> s.mem,
                      pc |-> IF ~is_positive(result) THEN c
                             ELSE wrapping_add(p, 3)]

Subleq_step_b_first(m, r, p, chk) == Subleq_step_bug(m, r, p, chk, "b_first")

Subleq_step_reread_c(m, r, p, chk) == Subleq_step_bug(m, r, p, chk, "reread_c")

Subleq_step(m, r, p, chk) ==
    LET g0 == Memory_get(m, p)
        g1 == Memory_get(m, wrapping_add(p, 1))
        g2 == Memory_get(m, wrapping_add(p, 2))
        fail(e) == Err(m, p, e)
    IN  IF ~IsOk(g0) THEN fail(g0)
        ELSE IF ~IsOk(g1) THEN fail(g1)
        ELSE IF ~IsOk(g2) THEN fail(g2)
        ELSE
        LET a == as_(g0.val)
            b == as_(g1.val)
            c == as_(g2.val)
            ga == Memory_get(m, a)
            gb == Memory_get(m, b)
        IN  IF ~IsOk(ga) THEN fail(ga)
            ELSE IF ~IsOk(gb) THEN fail(gb)
            ELSE IF chk /\ ~InT(gb.val - ga.val) THEN fail(Panic)
            ELSE
            LET result == sub(gb.val, ga.val)
                s == Memory_set(m, r, b, result)
            IN  IF ~IsOk(s.res) THEN Err(s.mem, p, s.res)
                ELSE [res |-> Ok(0), mem |-> s.mem,
                      pc |-> IF ~is_positive(result) THEN c
                             ELSE wrapping_add(p, 3)]

(***************************************************************************)
(* Subleq::step of src/src/lib.rs.                                         *)
(***************************************************************************)
Root_step(m, r, p) ==
    LET i == instruction(m, p)
    IN  IF ~IsOk(i.res) THEN Err(m, p, i.res)
        ELSE
        LET ga == RootMemory_get(m, i.a)
            gb == RootMemory_get(m, i.b)
        IN  IF ~IsOk(ga) THEN Err(m, p, ga)
            ELSE IF ~IsOk(gb) THEN Err(m, p, gb)
            ELSE
            LET result == wrapping_sub(gb.val, ga.val)
                np == IF ~is_positive(gb.val) THEN i.c
                      ELSE wrapping_add_T(p, 3)
                s == RootMemory_set(m, r, i.b, result)
            IN  [res |-> s.res, mem |-> s.mem, pc |-> np]

(***************************************************************************)
(* Constructors.                                                           *)
(***************************************************************************)
\* Subleq::default and Subleq::new of the crate
Subleq_default == [mem |-> LinearMemory_default, pc |-> 0]

\* mutant: the memory handed in is dropped for a default one
Subleq_with_memory_default(m) == [mem |-> LinearMemory_default, pc |-> 0]

\* Subleq::with_memory of the crate
Subleq_with_memory(m) == [mem |-> m, pc |-> 0]

\* Subleq::new(memory) of the root crate; T::zero() is 0
Root_new(m) == [mem |-> m, pc |-> 0]

(***************************************************************************)
(* Inputs.                                                                 *)
(***************************************************************************)
\* programs the caller has loaded before handing the memory to the engine:
\* the contents of the first cells, the rest zero
Programs ==
    { <<0, 0, 0, 0, 0>>,
      <<3, 4, 0, 5, 5>>,
      <<3, 4, 0, 2, 10>>,
      <<3, 4, 0, 1, MinT>>,
      \* an instruction whose B is its own third cell
      <<3, 2, 0, 5, 0>>,
      \* an instruction whose A and B both lie outside a linear memory
      <<-1, MinT, 0, 0, 0>> }

Loaded(zero, p) == [i \in DOMAIN zero |-> IF i < Len(p) THEN p[i + 1] ELSE 0]

\* values the caller stores
LoadVals == {MinT, -1, 0, 1, 4}

\* addresses the caller writes through the memory
Addrs(v) == IF v = "crate" THEN {0, 1, 2, 4, SIZE, UsizeMax}
            ELSE {0, 1, 2, 4, MaxT - 1}

\* addresses the caller only reads: a cell, the first address past a linear
\* memory, the last address there is
ReadAddrs(v) == IF v = "crate" THEN {0, SIZE, UsizeMax} ELSE {0, MaxT - 1}

\* values the caller assigns to the public field curr_instruction
PCVals(v) == IF v = "crate" THEN {SIZE - 2, SIZE} ELSE {MaxT - 2}

RoSets == {{}, {4}}

Op(o, r, x, v) == [op |-> o, res |-> r, x |-> x, v |-> v]

(***************************************************************************)
(* The state machine.                                                      *)
(***************************************************************************)
Init ==
    /\ variant \in {"crate", "root"}
    /\ ro \in RoSets
    /\ \E p \in Programs :
         LET e == IF variant = "crate"
                  THEN Subleq_with_memory(Loaded(LinearMemory_default, p))
                  ELSE Root_new(Loaded(ByteMemory_new, p))
         IN  /\ mem = e.mem
             /\ curr_instruction = e.pc
    /\ nsets = 0
    /\ nsteps = 0
    /\ last = Op("with_memory", Ok(0), 0, 0)

Alive == last.res.tag # "Panic"

\* engine.step()
Step ==
    /\ Alive
    /\ \E chk \in BOOLEAN :
         LET o == IF variant = "crate"
                  THEN Subleq_step(mem, ro, curr_instruction, chk)
                  ELSE Root_step(mem, ro, curr_instruction)
             same == o.mem = mem /\ o.pc = curr_instruction
         IN  /\ same \/ nsteps < MaxSteps
             /\ mem' = o.mem
             /\ curr_instruction' = o.pc
             /\ nsteps' = IF same THEN nsteps ELSE nsteps + 1
             /\ last' = Op("step", o.res, curr_instruction, 0)
    /\ UNCHANGED <<variant, ro, nsets>>

\* engine.mem.get(a)
Get ==
    /\ Alive
    /\ \E a \in ReadAddrs(variant) :
         last' = Op("get",
                    IF variant = "crate" THEN Memory_get(mem, a)
                    ELSE RootMemory_get(mem, a),
                    a, 0)
    /\ UNCHANGED <<variant, ro, mem, curr_instruction, nsets, nsteps>>

\* engine.mem.set(a, v)
Set ==
    /\ Alive
    /\ nsets < MaxSets
    /\ \E a \in Addrs(variant), v \in LoadVals :
         LET s == IF variant = "crate" THEN Memory_set(mem, ro, a, v)
                  ELSE RootMemory_set(mem, ro, a, v)
         IN  /\ mem' = s.mem
             /\ nsets' = IF IsOk(s.res) THEN nsets + 1 ELSE nsets
             /\ last' = Op("set", s.res, a, v)
    /\ UNCHANGED <<variant, ro, curr_instruction, nsteps>>

\* engine.curr_instruction = p
SetPC ==
    /\ Alive
    /\ \E p \in PCVals(variant) :
         /\ curr_instruction' = p
         /\ last' = Op("set_pc", Ok(0), p, 0)
    /\ UNCHANGED <<variant, ro, mem, nsets, nsteps>>

\* engine = Subleq::new() / Subleq::default()
New ==
    /\ Alive
    /\ variant = "crate"
    /\ ro = {}
    /\ mem' = Subleq_default.mem
    /\ curr_instruction' = Subleq_default.pc
    /\ \E o \in {"new", "default"} : last' = Op(o, Ok(0), 0, 0)
    /\ UNCHANGED <<variant, ro, nsets, nsteps>>

\* engine = Subleq::with_memory(engine.mem) / Subleq::new(engine.mem)
WithMemory ==
    /\ Alive
    /\ LET e == IF variant = "crate" THEN Subleq_with_memory(mem)
                ELSE Root_new(mem)
       IN  /\ mem' = e.mem
           /\ curr_instruction' = e.pc
    /\ last' = Op("with_memory", Ok(0), 0, 0)
    /\ UNCHANGED <<variant, ro, nsets, nsteps>>

Next == Step \/ Get \/ Set \/ SetPC \/ New \/ WithMemory

Spec == Init /\ [][Next]_vars

(***************************************************************************)
(* What a step is expected to do, read off the state before it.            *)
(***************************************************************************)
\* the transition is a call of step / a call of step that returned Ok(())
StepCalled == last'.op = "step"
StepOk == StepCalled /\ IsOk(last'.res)

\* the cell holding operand k of the instruction at the program counter
InstrCell(k) ==
    IF variant = "crate" THEN wrapping_add(curr_instruction, k)
    ELSE ByteMemory_index(wrapping_add_T(curr_instruction, k))

\* the value stored in that cell
Raw(k) == mem[InstrCell(k)]

\* the cell a stored value addresses
CellOf(v) == IF variant = "crate" THEN as_(v) ELSE ByteMemory_index(v)

OpA == CellOf(Raw(0))
OpB == CellOf(Raw(1))
\* the branch target, as a program counter
OpC == IF variant = "crate" THEN as_(Raw(2)) ELSE Raw(2)
\* the program counter of the next instruction in sequence
NextPC ==
    IF variant = "crate" THEN wrapping_add(curr_instruction, 3)
    ELSE wrapping_add_T(curr_instruction, 3)
\* M[B] - M[A] in the arithmetic of T, and as an integer
Difference == WrapT(mem[OpB] - mem[OpA])
ExactDifference == mem[OpB] - mem[OpA]

LastStepOk == last.op = "step" /\ IsOk(last.res)

(***************************************************************************)
(* C1. Branch decision: after a successful step with operands (A,B,C)      *)
(* the program counter is C when old M[B] - old M[A] <= 0, and the old     *)
(* program counter + 3 otherwise.                                          *)
(***************************************************************************)
C1_BranchDecision ==
    [][StepOk =>
         curr_instruction' = IF Difference <= 0 THEN OpC ELSE NextPC]_vars

(***************************************************************************)
(* C2. Result of one instruction: after a successful step the cell at B    *)
(* holds old M[B] - old M[A], the difference in the arithmetic of T        *)
(* (the exact difference whenever T can represent it).                     *)
(***************************************************************************)
C2_Result ==
    [][StepOk =>
         /\ mem'[OpB] = Difference
         /\ InT(ExactDifference) => mem'[OpB] = ExactDifference
         /\ OpA = OpB => mem'[OpB] = 0]_vars

\* the sequential-advance scenario has run: cell 4 went from 10 to 8
C2_Witness ==
    /\ LastStepOk /\ last.x = 0
    /\ mem[0] = 3 /\ mem[1] = 4 /\ mem[2] = 0 /\ mem[3] = 2 /\ mem[4] = 8
    /\ nsteps = 1 /\ nsets = 0

(***************************************************************************)
(* C3. Frame of one instruction: a successful step changes no cell other   *)
(* than B and does not change the capacity of the memory.                  *)
(***************************************************************************)
C3_Frame ==
    [][StepOk =>
         /\ DOMAIN mem' = DOMAIN mem
         /\ \A x \in DOMAIN mem : x # OpB => mem'[x] = mem[x]]_vars

\* the decrement scenario has run: cell 4 went from 5 to 0 and nothing else moved
C3_Witness ==
    /\ LastStepOk /\ last.x = 0
    /\ mem[0] = 3 /\ mem[1] = 4 /\ mem[2] = 0 /\ mem[3] = 5 /\ mem[4] = 0
    /\ \A x \in DOMAIN mem : x > 4 => mem[x] = 0
    /\ nsteps = 1 /\ nsets = 0

(***************************************************************************)
(* C4. A failed step leaves the state of the last completed sub-step:      *)
(* whenever step returns an error, the program counter and every memory    *)
(* cell are as before the call.                                            *)
(***************************************************************************)
StepFailed ==
    StepCalled /\ last'.res.tag \in {"AddressOutOfRange", "ImmutableAddress"}

C4_FailedStepKeepsState ==
    [][StepFailed =>
         curr_instruction' = curr_instruction /\ mem' = mem]_vars

(***************************************************************************)
(* C5. Address conversion failure is surfaced: a step that fetches an      *)
(* operand not representable as an address index (a negative value)        *)
(* returns AddressConversionFailed.                                        *)
(***************************************************************************)
Fetchable == \A k \in 0..2 : InstrCell(k) \in DOMAIN mem

C5_ConversionFailureSurfaced ==
    [][(StepCalled /\ variant = "crate" /\ Fetchable
          /\ \E k \in 0..2 : Raw(k) < 0)
       => last'.res.tag = "AddressConversionFailed"]_vars

(***************************************************************************)
(* C6. Bounds enforcement of the linear memory: get and set at an address  *)
(* a >= SIZE return AddressOutOfRange(a) and leave every cell as it was.   *)
(***************************************************************************)
IsLinearMemory == variant = "crate" /\ ro = {}

C6_BoundsEnforced ==
    [][(IsLinearMemory /\ last'.op \in {"get", "set"} /\ last'.x >= SIZE)
       => /\ last'.res = AddressOutOfRange(last'.x)
          /\ DOMAIN mem' = 0..(SIZE - 1)
          /\ \A i \in 0..(SIZE - 1) : mem'[i] = mem[i]]_vars

\* a set at the first address past the capacity has been refused
C6_Witness ==
    /\ IsLinearMemory
    /\ last.op = "set" /\ last.x = SIZE /\ last.v # 0
    /\ last.res = AddressOutOfRange(SIZE)

(***************************************************************************)
(* C7. Uniform overflow policy: step never panics; the result written is   *)
(* the difference wrapped modulo 2^w and the program counter, when it is   *)
(* not the branch target, is the old one plus 3 wrapped the same way.      *)
(***************************************************************************)
C7_UniformOverflowPolicy ==
    [][StepCalled =>
         /\ last'.res.tag # "Panic"
         /\ StepOk =>
              /\ mem'[OpB] = Difference
              /\ curr_instruction' # OpC => curr_instruction' = NextPC]_vars

(***************************************************************************)
(* C8. Idempotent failure: a step called right after a step that returned  *)
(* AddressOutOfRange(x), with nothing changed in between, returns          *)
(* AddressOutOfRange(x) again and leaves the engine where it was.          *)
(***************************************************************************)
C8_IdempotentFailure ==
    [][(last.op = "step" /\ last.res.tag = "AddressOutOfRange" /\ StepCalled)
       => /\ last'.res = last.res
          /\ curr_instruction' = curr_instruction
          /\ mem' = mem]_vars

\* a program has branched out of the memory and the next step has failed there
C8_Witness ==
    /\ last.op = "step" /\ last.res = AddressOutOfRange(curr_instruction)
    /\ last.x = curr_instruction
    /\ nsteps >= 1

(***************************************************************************)
(* C9. Round trip of set and get on the linear memory: set(a, v) with      *)
(* a < SIZE succeeds, a following get(a) returns v, and get at every other *)
(* address below SIZE returns what it returned before.                     *)
(***************************************************************************)
C9_RoundTrip ==
    [][(IsLinearMemory /\ last'.op = "set" /\ last'.x < SIZE)
       => /\ IsOk(last'.res)
          /\ LinearMemory_get(mem', last'.x) = Ok(last'.v)
          /\ \A b \in 0..(SIZE - 1) :
               b # last'.x => LinearMemory_get(mem', b) = LinearMemory_get(mem, b)]_vars

\* the smallest value has been stored over a different one in the last cell in use
C9_Witness ==
    /\ IsLinearMemory
    /\ last.op = "set" /\ IsOk(last.res) /\ last.x = 4 /\ last.v = MinT
    /\ mem[4] = MinT /\ mem[3] = 5

(***************************************************************************)
(* C10. Initial state: every constructor leaves the program counter at     *)
(* zero; new and default build a memory of SIZE cells all zero;            *)
(* the constructor taking a memory leaves its contents as they were.       *)
(***************************************************************************)
C10_InitialState ==
    /\ curr_instruction = 0
    /\ [][/\ last'.op \in {"new", "default", "with_memory"}
               => curr_instruction' = 0
          /\ last'.op \in {"new", "default"}
               => /\ DOMAIN mem' = 0..(SIZE - 1)
                  /\ \A i \in 0..(SIZE - 1) : mem'[i] = 0
          /\ last'.op = "with_memory" => mem' = mem]_vars

\* an engine has been rebuilt over the memory a program has run in
C10_Witness ==
    /\ last.op = "with_memory" /\ curr_instruction = 0
    /\ nsteps = 1 /\ mem[3] = 2 /\ mem[4] = 8

(***************************************************************************)
(* C11. First error wins, in access order: step accesses the memory in the *)
(* order get(PC), get(PC+1), get(PC+2), get(A), get(B), set(B) and returns *)
(* the error of the first access that fails; on a linear memory with the   *)
(* program counter at SIZE-1 or SIZE-2 that error is                        *)
(* AddressOutOfRange(SIZE), and with A and B both out of range it names A. *)
(***************************************************************************)
\* the cells of the memory, by the layout of each implementation
Cells == IF variant = "crate" THEN 0..(SIZE - 1) ELSE 0..(TMod - 1)

\* the addresses the gets of a step read, in order, as far as they are known:
\* A and B are known only once the three instruction cells have been read
ReadOrder ==
    LET fetch == <<InstrCell(0), InstrCell(1), InstrCell(2)>>
    IN  IF \A k \in 1..3 : fetch[k] \in Cells
        THEN fetch \o <<OpA, OpB>>
        ELSE fetch

\* the positions of ReadOrder whose address has no cell
Missing == {k \in 1..Len(ReadOrder) : ReadOrder[k] \notin Cells}

FirstMissing == CHOOSE k \in Missing : \A j \in Missing : k <= j

\* what the first failing access returns, Ok(()) when none fails
FirstError ==
    IF Missing # {} THEN AddressOutOfRange(ReadOrder[FirstMissing])
    ELSE IF OpB \in ro THEN ImmutableAddress(OpB)
    ELSE Ok(0)

C11_FirstErrorWins ==
    [][(StepCalled /\ last'.res.tag # "Panic") =>
         /\ last'.res = FirstError
         /\ (variant = "crate" /\ curr_instruction \in {SIZE - 2, SIZE - 1})
              => last'.res = AddressOutOfRange(SIZE)
         /\ (Missing = {} \/ FirstMissing > 3) /\ OpA \notin Cells
              => last'.res = AddressOutOfRange(OpA)]_vars

\* A and B both lie outside the memory, at different addresses, and the step
\* has returned the error of A
C11_Witness ==
    /\ variant = "crate"
    /\ last.op = "step" /\ last.x = 0 /\ curr_instruction = 0
    /\ as_(mem[0]) >= SIZE /\ as_(mem[1]) >= SIZE /\ as_(mem[0]) # as_(mem[1])
    /\ last.res = AddressOutOfRange(as_(mem[0]))

(***************************************************************************)
(* C12. Halt by self-branch is a fixed point: in a state where the         *)
(* instruction at the program counter p has C = p, M[A] = 0 and            *)
(* M[B] <= 0, every step leaves the program counter and every cell         *)
(* unchanged and leaves the engine in such a state again; the step         *)
(* succeeds when the memory lets it write B, and returns                   *)
(* ImmutableAddress(B) when B is a read-only cell.                         *)
(***************************************************************************)
HaltState ==
    /\ Alive
    /\ \A k \in 0..2 : InstrCell(k) \in Cells
    /\ OpA \in Cells /\ OpB \in Cells
    /\ OpC = curr_instruction
    /\ mem[OpA] = 0
    /\ mem[OpB] <= 0

C12_HaltIsFixedPoint ==
    [][(HaltState /\ StepCalled) =>
         /\ curr_instruction' = curr_instruction
         /\ mem' = mem
         /\ HaltState'
         /\ OpB \notin ro => IsOk(last'.res)
         /\ OpB \in ro => last'.res = ImmutableAddress(OpB)]_vars

\* the claim as first stated: in such a state every step succeeds and changes
\* nothing, whatever the memory
C12_HaltAlwaysSucceeds ==
    [][(HaltState /\ StepCalled) =>
         /\ IsOk(last'.res)
         /\ curr_instruction' = curr_instruction
         /\ mem' = mem]_vars

\* the engine sits on a self-branch over a negative cell, and the step just
\* taken there has succeeded and changed nothing
C12_Witness ==
    /\ HaltState /\ OpB \notin ro
    /\ LastStepOk /\ last.x = curr_instruction
    /\ nsteps = 0
    /\ OpA # OpB /\ mem[OpB] < 0

(***************************************************************************)
(* C13. Operands are latched before the write: when B is one of the cells  *)
(* PC, PC+1, PC+2 of the instruction itself, a successful step writes the  *)
(* result to the B fetched before the write and to no other cell, and the  *)
(* program counter it leaves is the C fetched before the write or the old  *)
(* program counter + 3, never a target read after the write.               *)
(***************************************************************************)
SelfModifying == OpB \in {InstrCell(0), InstrCell(1), InstrCell(2)}

C13_OperandsLatched ==
    [][(StepOk /\ SelfModifying) =>
         /\ mem'[OpB] = Difference
         /\ \A x \in Cells : x # OpB => mem'[x] = mem[x]
         /\ curr_instruction' \in {OpC, NextPC}
         /\ (variant = "crate" /\ Difference <= 0) => curr_instruction' = OpC]_vars

\* the instruction (3, 2, 0) has overwritten its own branch target with -5
\* and has still branched to the 0 it had fetched
C13_Witness ==
    /\ LastStepOk /\ last.x = 0
    /\ mem[0] = 3 /\ mem[1] = 2 /\ mem[2] = -5 /\ mem[3] = 5
    /\ curr_instruction = 0
    /\ nsteps = 1 /\ nsets = 0

(***************************************************************************)
(* C14. Exact success condition on the linear memory: step succeeds if and *)
(* only if the five addresses PC, PC+1, PC+2, A and B are all below SIZE;  *)
(* C is not among them, and the write to B never fails.                    *)
(***************************************************************************)
AllInRange ==
    /\ \A k \in 0..2 : InstrCell(k) < SIZE
    /\ OpA < SIZE
    /\ OpB < SIZE

C14_ExactSuccessCondition ==
    [][(StepCalled /\ IsLinearMemory) =>
         (IsOk(last'.res) <=> AllInRange)]_vars

====
